---- MODULE Spec2Model ----
(***************************************************************************)
(* Model of the PDF Processor service (src/server.py): the per-page        *)
(* redaction pipeline PDFProcessor.process and the handlers of the process *)
(* table (upload_pdf, get_status, download_pdf, list_processes, cleanup).  *)
(*                                                                         *)
(* Every handler is an `async def` without an await in its body, so the    *)
(* event loop runs one handler at a time: a run of upload_pdf is a chain   *)
(* of steps positioned by pc, and the other handlers act only at "idle".   *)
(*                                                                         *)
(* A page's text is the ordered list of the hits the library's             *)
(* page.search_for reports on it: items [term, rect], one per occurrence   *)
(* of a needle.  stats["processing_time"] and stats["output_size"] are     *)
(* measurements of the wall clock and of the file system and are left out. *)
(* The Polish phrases of TRANSLATIONS are written without diacritics.      *)
(***************************************************************************)
EXTENDS Integers, Sequences, FiniteSets, TLC

\* ------------------------------------------------------------------ bounds
MaxPages == 2        \* pages of an uploaded document
MaxUploads == 2      \* uploads in a run of the service
MaxTicks == 2        \* times the clock advances

\* ------------------------------------------------------- program constants
HEADER_HEIGHT == 100
PRICE_LEFT == 10
PRICE_RIGHT == 200
PRICE_BELOW == 20
REF_LEFT == 5
REF_RIGHT == 150
REF_BELOW == 5
RETENTION == 3600
REPLACE_HOUR == -1

\* TRANSLATIONS: <<source phrase, target phrase>> in the dict's order
TRANSLATIONS ==
  << <<"Klamka okienna", "Maniglia finestra">>,
     <<"Biala", "Bianca">>,
     <<"Prog aluminiowy cieply", "Soglia in alluminio a taglio termico">>,
     <<"Prog aluminiowy", "Soglia in alluminio">>,
     <<"czynne", "attiva">>,
     <<"bierne", "passiva">>,
     <<"stala", "fissa">>,
     <<"mikro", "micro">>,
     <<"NISKI PROG ALUM W BALKONIE", "SOGLIA BASSA IN ALLUMINIO NEL BALCONE">>,
     <<"Inny typ w zestawie", "Altro tipo nel set">>,
     <<"Kod ramy", "Codice telaio">>,
     <<"Kod skrzydla", "Codice anta">>,
     <<"Powierzchnia", "Superficie">>,
     <<"Obwod", "Perimetro">>,
     <<"Vista da interno", "Vista interna">>,
     <<"quantita", "quantita_">>,
     <<"Unita' di produzione", "Unita di produzione">>,
     <<"Sommario", "Riepilogo">>,
     <<"Prodotto standard", "Prodotto standard">>,
     <<"In totale", "Totale">>,
     <<"Totale peso", "Peso totale">>,
     <<"Totale quantita' di telai", "Quantita totale telai">> >>

\* the keys of TRANSLATIONS, as the loop `for pl_text, it_text in ...` reads them
TranslationTerms == [i \in 1..Len(TRANSLATIONS) |-> TRANSLATIONS[i][1]]

price_keywords ==
  <<"Prezzi netto", "Prezzo", "Sconto", "Valore", "IVA", "lordo", "netto">>

ref_texts == <<"Rif:", "RIF:", "Per:">>

RecognisedKeys == {"translate", "remove_prices", "remove_header", "remove_ref"}

\* the dict upload_pdf uses when the request carries no config
DEFAULT_CONFIG ==
  [k \in RecognisedKeys \cup {"preserve_layout"} |-> TRUE]

\* self.stats as __init__ builds it
InitStats == [translations |-> 0, prices_removed |-> 0, pages |-> 0]

\* ----------------------------------------------------------- library model
\* fitz.Rect(x0, y0, x1, y1)
Rect(x0, y0, x1, y1) == <<x0, y0, x1, y1>>

\* two rectangles share area: text under a redaction is removed
Overlaps(r, s) == r[1] < s[3] /\ s[1] < r[3] /\ r[2] < s[4] /\ s[2] < r[4]

\* page.search_for(term): the rectangles of the hits of term, in page order
RECURSIVE SearchFor(_, _)
SearchFor(items, term) ==
  IF items = <<>> THEN <<>>
  ELSE (IF Head(items).term = term THEN <<Head(items).rect>> ELSE <<>>)
       \o SearchFor(Tail(items), term)

\* page.apply_redactions(): the annotations become fills, the text they
\* cover is removed, and no annotation stays pending
RECURSIVE RemoveCovered(_, _)
RemoveCovered(items, rects) ==
  IF items = <<>> THEN <<>>
  ELSE (IF \E i \in 1..Len(rects) : Overlaps(Head(items).rect, rects[i])
        THEN <<>> ELSE <<Head(items)>>)
       \o RemoveCovered(Tail(items), rects)

ApplyRedactions(page) ==
  [page EXCEPT !.items = RemoveCovered(page.items, page.annots),
               !.redacted = page.redacted \o page.annots,
               !.annots = <<>>]

\* page.add_redact_annot(rect, fill=(1, 1, 1)) for every rect of a list
AddRedactAnnots(page, rects) == [page EXCEPT !.annots = page.annots \o rects]

\* ------------------------------------------------------------ the pipeline
\* a lookup that ignores the stored value: config.get(key, True) or True
ConfigGetIgnoresValue(cfg, key, default) == default

\* a lookup without the default: config.get(key), None for an absent key
ConfigGetNoDefault(cfg, key, default) == IF key \in DOMAIN cfg THEN cfg[key] ELSE FALSE

\* self.config.get(key, default)
ConfigGet(cfg, key, default) == IF key \in DOMAIN cfg THEN cfg[key] ELSE default

\* a header band of the A4 portrait width instead of the page's own
HeaderRectA4(page) == Rect(0, 0, 595, HEADER_HEIGHT)

\* fitz.Rect(0, 0, page.rect.width, 100)
HeaderRect(page) == Rect(0, 0, page.width, HEADER_HEIGHT)

\* the price expansion with the margins of the reference stage
PriceRectRefMargins(inst) ==
  Rect(inst[1] - REF_LEFT, inst[2], inst[3] + REF_RIGHT, inst[4] + REF_BELOW)

\* fitz.Rect(inst.x0 - 10, inst.y0, inst.x1 + 200, inst.y1 + 20)
PriceRect(inst) ==
  Rect(inst[1] - PRICE_LEFT, inst[2], inst[3] + PRICE_RIGHT, inst[4] + PRICE_BELOW)

\* fitz.Rect(inst.x0 - 5, inst.y0, inst.x1 + 150, inst.y1 + 5)
RefRect(inst) ==
  Rect(inst[1] - REF_LEFT, inst[2], inst[3] + REF_RIGHT, inst[4] + REF_BELOW)

\* the hits of the first n terms of a rule list, in the order the two nested
\* loops (for term: for inst in page.search_for(term)) visit them
RECURSIVE Hits(_, _, _)
Hits(items, terms, n) ==
  IF n = 0 THEN <<>>
  ELSE Hits(items, terms, n - 1) \o SearchFor(items, terms[n])

\* the rectangles of the translation stage: each hit as located
TranslateRects(page, n) == Hits(page.items, TranslationTerms, n)

\* the rectangles of the price stage: each hit expanded
PriceRects(page, n) ==
  LET h == Hits(page.items, price_keywords, n)
  IN  [i \in 1..Len(h) |-> PriceRect(h[i])]

\* the rectangles of the reference stage: each hit expanded
RefRects(page, n) ==
  LET h == Hits(page.items, ref_texts, n)
  IN  [i \in 1..Len(h) |-> RefRect(h[i])]

\* what the price stage adds to stats["prices_removed"] for its hits
PricesCounted(hits) == Len(hits)

\* the calls of page.search_for for the first n terms of a rule list
SearchEvents(p, terms, n) == [i \in 1..n |-> <<"search", p, terms[i]>>]

\* a document as fitz.open returns it: nothing pending, nothing applied
OpenDoc(pages) ==
  [i \in 1..Len(pages) |->
     [width |-> pages[i].width, items |-> pages[i].items,
      annots |-> <<>>, redacted |-> <<>>]]

\* the head of `for page_num in range(len(doc))`
LoopHead(n, len) == IF n < len THEN "header" ELSE "save"

\* ------------------------------------------------------------------ inputs
Item(term, rect) == [term |-> term, rect |-> rect]
Page(width, items) == [width |-> width, items |-> items]

itKlamka == Item("Klamka okienna", Rect(50, 120, 130, 132))
itPrezzo == Item("Prezzo", Rect(50, 200, 90, 212))
itNetto == Item("netto", Rect(300, 400, 330, 412))
itRif == Item("Rif:", Rect(50, 150, 70, 162))
itOther == Item("Finestra", Rect(60, 300, 110, 312))

\* the pages documents are made of
PageSet ==
  { Page(595, <<>>),
    Page(842, <<itOther>>),
    Page(595, <<itKlamka>>),
    Page(595, <<itPrezzo, itNetto>>),
    Page(842, <<itRif>>),
    Page(595, <<itKlamka, itRif, itPrezzo, itOther>>) }

SeqsUpTo(S, n) == UNION {[1..k -> S] : k \in 1..n}

\* an uploaded file: a parseable document, or bytes fitz.open rejects
GoodFile(pages) == [parseable |-> TRUE, pages |-> pages]
CorruptFile == [parseable |-> FALSE, pages |-> <<>>]
Files == {GoodFile(d) : d \in SeqsUpTo(PageSet, MaxPages)} \cup {CorruptFile}

\* the `config` parameter of the request: absent, a JSON object, or not JSON
NoConfig == [kind |-> "none", obj |-> [k \in {} |-> TRUE]]
JsonConfig(obj) == [kind |-> "json", obj |-> obj]
BadConfig == [kind |-> "bad", obj |-> [k \in {} |-> TRUE]]
FooConfig == JsonConfig([k \in {"foo"} |-> TRUE])

Configs ==
  {NoConfig, FooConfig, BadConfig}
  \cup {JsonConfig(f) : f \in [RecognisedKeys -> BOOLEAN]}
  \cup {JsonConfig([k \in S |-> FALSE]) : S \in SUBSET RecognisedKeys}

\* the needles whose search is made to fail (a StageError)
FaultTerms == {"Klamka okienna", "Sconto", "Per:"}

\* ------------------------------------------------------------------- state
VARIABLES
  processes,    \* the process table: process id -> record
  uploads,      \* UPLOAD_FOLDER: process id -> [ctime, file]
  processed,    \* PROCESSED_FOLDER: process id -> [ctime, pages]
  now,          \* the clock, in seconds
  ticks,        \* how often the clock advanced
  uuids,        \* process ids handed out
  response,     \* the last response a handler gave
  pc,           \* position of the running upload_pdf, "idle" when none runs
  process_id,   \* upload_pdf: the id of the running upload
  config,       \* PDFProcessor.config
  doc,          \* PDFProcessor.process: the pages of the open document
  docOpen,      \* the document handle is open
  page_num,     \* PDFProcessor.process: the loop index
  stats,        \* PDFProcessor.stats
  error,        \* the exception that ended the run
  log           \* the library calls of the run, in order

svc == <<processes, uploads, processed, now, ticks, uuids, response>>
run == <<pc, process_id, config, doc, docOpen, page_num, stats, error, log>>
vars == <<processes, uploads, processed, now, ticks, uuids, response,
          pc, process_id, config, doc, docOpen, page_num, stats, error, log>>

NoResponse == [op |-> "none", code |-> 0, body |-> ""]
EmptyMap == [k \in {} |-> TRUE]

Init ==
  /\ processes = EmptyMap
  /\ uploads = EmptyMap
  /\ processed = EmptyMap
  /\ now = 0
  /\ ticks = 0
  /\ uuids = 0
  /\ response = NoResponse
  /\ pc = "idle"
  /\ process_id = 0
  /\ config = EmptyMap
  /\ doc = <<>>
  /\ docOpen = FALSE
  /\ page_num = 0
  /\ stats = InitStats
  /\ error = ""
  /\ log = <<>>

\* the locals of a finished handler are gone
RunReset ==
  /\ pc' = "idle"
  /\ process_id' = 0
  /\ config' = EmptyMap
  /\ doc' = <<>>
  /\ docOpen' = FALSE
  /\ page_num' = 0
  /\ stats' = InitStats
  /\ error' = ""
  /\ log' = <<>>

Put(m, k, v) == [x \in DOMAIN m \cup {k} |-> IF x = k THEN v ELSE m[x]]
Without(m, S) == [x \in DOMAIN m \ S |-> m[x]]

\* ------------------------------------------------------ upload_pdf, part 1
\* lines 155-185: a fresh id, the input file written, the config read, the
\* record created with status "processing", the processor built
ConfigDict(cfg) == IF cfg.kind = "none" THEN DEFAULT_CONFIG ELSE cfg.obj

NewRecord(cfg, pid, t) ==
  [status |-> "processing", progress |-> 10, config |-> ConfigDict(cfg),
   input_file |-> pid, output_file |-> <<>>, stats |-> <<>>, created_at |-> t]

UploadStart(file, cfg, limit) ==
  /\ pc = "idle"
  /\ uuids < limit
  /\ cfg.kind # "bad"
  /\ uuids' = uuids + 1
  /\ uploads' = Put(uploads, uuids + 1, [ctime |-> now, file |-> file])
  /\ processes' = Put(processes, uuids + 1, NewRecord(cfg, uuids + 1, now))
  /\ process_id' = uuids + 1
  /\ config' = ConfigDict(cfg)
  /\ stats' = InitStats
  /\ pc' = "open"
  /\ UNCHANGED <<processed, now, ticks, response, doc, docOpen, page_num, error, log>>

\* json.loads(config) raises: the input file is written, no record exists
UploadBadConfig(file, cfg, limit) ==
  /\ pc = "idle"
  /\ uuids < limit
  /\ cfg.kind = "bad"
  /\ uuids' = uuids + 1
  /\ uploads' = Put(uploads, uuids + 1, [ctime |-> now, file |-> file])
  /\ process_id' = uuids + 1
  /\ error' = "JSONDecodeError"
  /\ pc' = "raised"
  /\ UNCHANGED <<processes, processed, now, ticks, response, config, doc, docOpen,
                 page_num, stats, log>>

\* --------------------------------------------------- PDFProcessor.process
\* lines 83-84: fitz.open and stats["pages"] = len(doc)
Open ==
  /\ pc = "open"
  /\ uploads[process_id].file.parseable
  /\ doc' = OpenDoc(uploads[process_id].file.pages)
  /\ docOpen' = TRUE
  /\ stats' = [stats EXCEPT !.pages = Len(uploads[process_id].file.pages)]
  /\ page_num' = 0
  /\ pc' = LoopHead(0, Len(uploads[process_id].file.pages))
  /\ UNCHANGED <<svc, process_id, config, error, log>>

\* line 83: fitz.open raises on bytes that are no document
OpenRaise ==
  /\ pc = "open"
  /\ ~uploads[process_id].file.parseable
  /\ error' = "OpenError"
  /\ pc' = "raised"
  /\ UNCHANGED <<svc, process_id, config, doc, docOpen, page_num, stats, log>>

\* lines 90-92: the header band
HeaderStage ==
  /\ pc = "header"
  /\ IF ConfigGet(config, "remove_header", TRUE)
     THEN /\ doc' = [doc EXCEPT ![page_num + 1] =
                       AddRedactAnnots(@, <<HeaderRect(doc[page_num + 1])>>)]
          /\ log' = Append(log, <<"header", page_num, "">>)
     ELSE UNCHANGED <<doc, log>>
  /\ pc' = "translate"
  /\ UNCHANGED <<svc, process_id, config, docOpen, page_num, stats, error>>

\* lines 95-99: every translation phrase searched, every hit annotated;
\* the loop body does not touch self.stats
TranslateStage ==
  /\ pc = "translate"
  /\ IF ConfigGet(config, "translate", TRUE)
     THEN LET n == Len(TranslationTerms)
              rects == TranslateRects(doc[page_num + 1], n)
          IN  /\ doc' = [doc EXCEPT ![page_num + 1] = AddRedactAnnots(@, rects)]
              /\ log' = log \o SearchEvents(page_num, TranslationTerms, n)
     ELSE UNCHANGED <<doc, log>>
  /\ pc' = "prices"
  /\ UNCHANGED <<svc, process_id, config, docOpen, page_num, stats, error>>

\* line 97: page.search_for raises at the k-th phrase; nothing catches it
TranslateRaise ==
  /\ pc = "translate"
  /\ ConfigGet(config, "translate", TRUE)
  /\ \E k \in 1..Len(TranslationTerms) :
       /\ TranslationTerms[k] \in FaultTerms
       /\ doc' = [doc EXCEPT ![page_num + 1] =
                    AddRedactAnnots(@, TranslateRects(doc[page_num + 1], k - 1))]
       /\ log' = log \o SearchEvents(page_num, TranslationTerms, k)
  /\ error' = "StageError"
  /\ pc' = "raised"
  /\ UNCHANGED <<svc, process_id, config, docOpen, page_num, stats>>

\* a price stage that applies its redactions at once, before the reference
\* stage has searched the page
PricesStageApplying ==
  /\ pc = "prices"
  /\ IF ConfigGet(config, "remove_prices", TRUE)
     THEN LET n == Len(price_keywords)
              rects == PriceRects(doc[page_num + 1], n)
          IN  /\ doc' = [doc EXCEPT ![page_num + 1] =
                           ApplyRedactions(AddRedactAnnots(@, rects))]
              /\ stats' = [stats EXCEPT !.prices_removed = @ + PricesCounted(rects)]
              /\ log' = Append(log \o SearchEvents(page_num, price_keywords, n),
                               <<"apply", page_num, "">>)
     ELSE UNCHANGED <<doc, stats, log>>
  /\ pc' = "ref"
  /\ UNCHANGED <<svc, process_id, config, docOpen, page_num, error>>

\* lines 104-113: every price keyword searched, every hit expanded, annotated
\* and counted
PricesStage ==
  /\ pc = "prices"
  /\ IF ConfigGet(config, "remove_prices", TRUE)
     THEN LET n == Len(price_keywords)
              rects == PriceRects(doc[page_num + 1], n)
          IN  /\ doc' = [doc EXCEPT ![page_num + 1] = AddRedactAnnots(@, rects)]
              /\ stats' = [stats EXCEPT !.prices_removed = @ + PricesCounted(rects)]
              /\ log' = log \o SearchEvents(page_num, price_keywords, n)
     ELSE UNCHANGED <<doc, stats, log>>
  /\ pc' = "ref"
  /\ UNCHANGED <<svc, process_id, config, docOpen, page_num, error>>

\* line 108: page.search_for raises at the k-th keyword; nothing catches it
PricesRaise ==
  /\ pc = "prices"
  /\ ConfigGet(config, "remove_prices", TRUE)
  /\ \E k \in 1..Len(price_keywords) :
       /\ price_keywords[k] \in FaultTerms
       /\ LET rects == PriceRects(doc[page_num + 1], k - 1)
          IN  /\ doc' = [doc EXCEPT ![page_num + 1] = AddRedactAnnots(@, rects)]
              /\ stats' = [stats EXCEPT !.prices_removed = @ + PricesCounted(rects)]
       /\ log' = log \o SearchEvents(page_num, price_keywords, k)
  /\ error' = "StageError"
  /\ pc' = "raised"
  /\ UNCHANGED <<svc, process_id, config, docOpen, page_num>>

\* lines 116-121: every reference marker searched, every hit expanded and
\* annotated
RefStage ==
  /\ pc = "ref"
  /\ IF ConfigGet(config, "remove_ref", TRUE)
     THEN LET n == Len(ref_texts)
              rects == RefRects(doc[page_num + 1], n)
          IN  /\ doc' = [doc EXCEPT ![page_num + 1] = AddRedactAnnots(@, rects)]
              /\ log' = log \o SearchEvents(page_num, ref_texts, n)
     ELSE UNCHANGED <<doc, log>>
  /\ pc' = "apply"
  /\ UNCHANGED <<svc, process_id, config, docOpen, page_num, stats, error>>

\* line 118: page.search_for raises at the k-th marker; nothing catches it
RefRaise ==
  /\ pc = "ref"
  /\ ConfigGet(config, "remove_ref", TRUE)
  /\ \E k \in 1..Len(ref_texts) :
       /\ ref_texts[k] \in FaultTerms
       /\ doc' = [doc EXCEPT ![page_num + 1] =
                    AddRedactAnnots(@, RefRects(doc[page_num + 1], k - 1))]
       /\ log' = log \o SearchEvents(page_num, ref_texts, k)
  /\ error' = "StageError"
  /\ pc' = "raised"
  /\ UNCHANGED <<svc, process_id, config, docOpen, page_num, stats>>

\* line 124, and the loop's step to the next page
ApplyStage ==
  /\ pc = "apply"
  /\ doc' = [doc EXCEPT ![page_num + 1] = ApplyRedactions(@)]
  /\ log' = Append(log, <<"apply", page_num, "">>)
  /\ page_num' = page_num + 1
  /\ pc' = LoopHead(page_num + 1, Len(doc))
  /\ UNCHANGED <<svc, process_id, config, docOpen, stats, error>>

\* line 130: doc.save writes the output file
Save ==
  /\ pc = "save"
  /\ processed' = Put(processed, process_id, [ctime |-> now, pages |-> doc])
  /\ pc' = "close"
  /\ UNCHANGED <<processes, uploads, now, ticks, uuids, response,
                 process_id, config, doc, docOpen, page_num, stats, error, log>>

\* line 130: doc.save raises, leaving no file or a partial one
SaveRaise ==
  /\ pc = "save"
  /\ \E partial \in BOOLEAN :
       processed' = IF partial
                    THEN Put(processed, process_id, [ctime |-> now, pages |-> <<>>])
                    ELSE processed
  /\ error' = "SaveError"
  /\ pc' = "raised"
  /\ UNCHANGED <<processes, uploads, now, ticks, uuids, response,
                 process_id, config, doc, docOpen, page_num, stats, log>>

\* lines 131-138: doc.close(), the measurements, return self.stats
CloseAndReturn ==
  /\ pc = "close"
  /\ docOpen' = FALSE
  /\ pc' = "returned"
  /\ UNCHANGED <<svc, process_id, config, doc, page_num, stats, error, log>>

\* ------------------------------------------------------ upload_pdf, part 2
\* lines 189-201: the record updated to "completed", the response returned
Complete ==
  /\ pc = "returned"
  /\ processes' = [processes EXCEPT ![process_id] =
                     [@ EXCEPT !.status = "completed", !.progress = 100,
                               !.output_file = <<process_id>>,
                               !.stats = <<stats>>]]
  /\ response' = [op |-> "upload", code |-> 200, body |-> "processing_started"]
  /\ RunReset
  /\ UNCHANGED <<uploads, processed, now, ticks, uuids>>

\* lines 203-204: any exception becomes HTTP 500; the record is not touched
Fail ==
  /\ pc = "raised"
  /\ response' = [op |-> "upload", code |-> 500, body |-> error]
  /\ RunReset
  /\ UNCHANGED <<processes, uploads, processed, now, ticks, uuids>>

\* ------------------------------------------------------ the other handlers
\* lines 206-212
GetStatus(pid) ==
  /\ pc = "idle"
  /\ response' = IF pid \in DOMAIN processes
                 THEN [op |-> "status", code |-> 200, body |-> processes[pid].status]
                 ELSE [op |-> "status", code |-> 404, body |-> "Processo non trovato"]
  /\ UNCHANGED <<processes, uploads, processed, now, ticks, uuids, run>>

\* lines 216-217
DownloadUnknown(pid) ==
  /\ pc = "idle"
  /\ pid \notin DOMAIN processes
  /\ response' = [op |-> "download", code |-> 404, body |-> "Processo non trovato"]
  /\ UNCHANGED <<processes, uploads, processed, now, ticks, uuids, run>>

\* lines 219-221
DownloadNotReady(pid) ==
  /\ pc = "idle"
  /\ pid \in DOMAIN processes
  /\ processes[pid].status # "completed" \/ processes[pid].output_file = <<>>
  /\ response' = [op |-> "download", code |-> 400, body |-> "PDF non ancora pronto"]
  /\ UNCHANGED <<processes, uploads, processed, now, ticks, uuids, run>>

\* lines 223-227: FileResponse of the record's output path; the response
\* fails when no file is at that path
DownloadServe(pid) ==
  /\ pc = "idle"
  /\ pid \in DOMAIN processes
  /\ processes[pid].status = "completed" /\ processes[pid].output_file # <<>>
  /\ response' = IF processes[pid].output_file[1] \in DOMAIN processed
                 THEN [op |-> "download", code |-> 200, body |-> "file"]
                 ELSE [op |-> "download", code |-> 500, body |-> "file does not exist"]
  /\ UNCHANGED <<processes, uploads, processed, now, ticks, uuids, run>>

\* lines 229-234
ListProcesses ==
  /\ pc = "idle"
  /\ response' = [op |-> "list", code |-> 200, body |-> "processes"]
  /\ UNCHANGED <<processes, uploads, processed, now, ticks, uuids, run>>

\* line 246: os.path.getctime(file) < current_time - 3600
Expired(files, t) == {f \in DOMAIN files : files[f].ctime < t - RETENTION}

\* datetime.replace(hour=h) accepts 0..23 and raises ValueError otherwise
HourValid(h) == 0 <= h /\ h <= 23

\* datetime.now().replace(hour=h), in seconds
ReplaceHour(t, h) == (t \div 86400) * 86400 + h * 3600 + (t % 3600)

\* line 251-252: the condition of the comprehension is evaluated once per
\* record, so it raises only when the table holds a record
FilterRaises == processes # EmptyMap /\ ~HourValid(REPLACE_HOUR)

\* lines 241-254: old files removed, old records dropped
Cleanup ==
  /\ pc = "idle"
  /\ ~FilterRaises
  /\ uploads' = Without(uploads, Expired(uploads, now))
  /\ processed' = Without(processed, Expired(processed, now))
  /\ processes' = Without(processes,
       {pid \in DOMAIN processes :
          ~(processes[pid].created_at > ReplaceHour(now, REPLACE_HOUR))})
  /\ response' = [op |-> "cleanup", code |-> 200, body |-> "Cleanup completato"]
  /\ UNCHANGED <<now, ticks, uuids, run>>

\* lines 244-247, then 251-252 raise and 255-256 answer 500: the files are
\* removed, the table is left as it was
CleanupRaise ==
  /\ pc = "idle"
  /\ FilterRaises
  /\ uploads' = Without(uploads, Expired(uploads, now))
  /\ processed' = Without(processed, Expired(processed, now))
  /\ response' = [op |-> "cleanup", code |-> 500, body |-> "ValueError"]
  /\ UNCHANGED <<processes, now, ticks, uuids, run>>

\* time passes between two requests
TickSteps == {1, RETENTION}

Tick ==
  /\ pc = "idle"
  /\ ticks < MaxTicks
  /\ ticks' = ticks + 1
  /\ \E dt \in TickSteps : now' = now + dt
  /\ UNCHANGED <<processes, uploads, processed, uuids, response, run>>

\* ---------------------------------------------------------- specifications
Pipeline ==
  \/ Open
  \/ OpenRaise
  \/ HeaderStage
  \/ TranslateStage
  \/ TranslateRaise
  \/ PricesStage
  \/ PricesRaise
  \/ RefStage
  \/ RefRaise
  \/ ApplyStage
  \/ Save
  \/ SaveRaise
  \/ CloseAndReturn
  \/ Complete
  \/ Fail

\* one upload of any file with any config
UploadOne ==
  /\ pc = "idle"
  /\ uuids = 0
  /\ \E file \in Files, cfg \in Configs :
       UploadStart(file, cfg, 1) \/ UploadBadConfig(file, cfg, 1)

Next == UploadOne \/ Pipeline

Spec == Init /\ [][Next]_vars

\* the service: several uploads, status, download, list, cleanup, the clock
SvcFiles == {GoodFile(<<Page(595, <<itKlamka, itRif, itPrezzo, itOther>>)>>), CorruptFile}
SvcConfigs == {NoConfig, BadConfig}

UploadSvc ==
  /\ pc = "idle"
  /\ \E file \in SvcFiles, cfg \in SvcConfigs :
       UploadStart(file, cfg, MaxUploads) \/ UploadBadConfig(file, cfg, MaxUploads)

Requests ==
  \/ \E pid \in 1..MaxUploads :
       GetStatus(pid) \/ DownloadUnknown(pid) \/ DownloadNotReady(pid) \/ DownloadServe(pid)
  \/ ListProcesses
  \/ Cleanup
  \/ CleanupRaise
  \/ Tick

NextService == UploadSvc \/ Pipeline \/ Requests

SpecService == Init /\ [][NextService]_vars

\* two uploads, to compare the outcome of one file under two configs
PairFiles ==
  { GoodFile(<<Page(595, <<itKlamka, itRif, itPrezzo, itOther>>)>>),
    GoodFile(<<Page(595, <<itPrezzo, itNetto>>)>>),
    GoodFile(<<Page(842, <<itOther>>)>>),
    CorruptFile }

UploadPair ==
  /\ pc = "idle"
  /\ \E file \in PairFiles, cfg \in Configs :
       UploadStart(file, cfg, 2) \/ UploadBadConfig(file, cfg, 2)

NextPair == UploadPair \/ Pipeline

SpecPair == Init /\ [][NextPair]_vars

\* ------------------------------------------------------------------ claims
\* the pages of the file the running upload was given
InputPages == uploads[process_id].file.pages

Range(seq) == {seq[i] : i \in 1..Len(seq)}

\* how many hits the terms of a rule list have on a page
PageMatches(page, terms) ==
  Cardinality({j \in 1..Len(page.items) : page.items[j].term \in Range(terms)})

RECURSIVE TotalMatches(_, _)
TotalMatches(pages, terms) ==
  IF pages = <<>> THEN 0
  ELSE PageMatches(Head(pages), terms) + TotalMatches(Tail(pages), terms)

\* how often a rectangle occurs in a list of regions
Occurrences(regions, r) == Cardinality({k \in 1..Len(regions) : regions[k] = r})

KeyTrue(cfg, k) == k \in DOMAIN cfg /\ cfg[k] = TRUE
KeyFalse(cfg, k) == k \in DOMAIN cfg /\ cfg[k] = FALSE
\* the reading the claims give a config: an absent key counts as true
KeyOn(cfg, k) == k \notin DOMAIN cfg \/ cfg[k] = TRUE

\* C1: with translate enabled, when process returns stats["translations"] is
\* the number of hits of the TRANSLATIONS phrases over all pages.
C1_TranslationsCounted ==
  (pc = "returned" /\ KeyOn(config, "translate"))
    => stats.translations = TotalMatches(InputPages, TranslationTerms)

\* C2: once upload_pdf has finished, no record is left in status
\* "processing": each is "completed" or "failed".
C2_NoRecordLeftProcessing ==
  pc = "idle" =>
    \A pid \in DOMAIN processes : processes[pid].status \in {"completed", "failed"}

\* C4: a failing search is caught at its rule: it never ends the run.
C4_RuleFailureCaught == ~(pc = "raised" /\ error = "StageError")

\* C5: whenever process has left, by return or by exception, the document
\* handle is closed.
C5_DocClosedOnExit == pc \in {"returned", "raised"} => ~docOpen

\* C10: every record with status "completed" has its output file on disk.
C10_CompletedOutputExists ==
  \A pid \in DOMAIN processes :
    processes[pid].status = "completed" =>
      /\ processes[pid].output_file # <<>>
      /\ processes[pid].output_file[1] \in DOMAIN processed

\* the events of page p in the log, in order
RECURSIVE PageEvents(_, _)
PageEvents(l, p) ==
  IF l = <<>> THEN <<>>
  ELSE (IF Head(l)[2] = p THEN <<Head(l)>> ELSE <<>>) \o PageEvents(Tail(l), p)

\* the planning calls of a page in the fixed order header, translation,
\* price, reference, for the stages the config leaves on
PlanOf(cfg, p) ==
  (IF KeyOn(cfg, "remove_header") THEN << <<"header", p, "">> >> ELSE <<>>)
  \o (IF KeyOn(cfg, "translate")
      THEN [i \in 1..Len(TRANSLATIONS) |-> <<"search", p, TRANSLATIONS[i][1]>>]
      ELSE <<>>)
  \o (IF KeyOn(cfg, "remove_prices")
      THEN [i \in 1..Len(price_keywords) |-> <<"search", p, price_keywords[i]>>]
      ELSE <<>>)
  \o (IF KeyOn(cfg, "remove_ref")
      THEN [i \in 1..Len(ref_texts) |-> <<"search", p, ref_texts[i]>>]
      ELSE <<>>)

IsApply(e) == e[1] = "apply"

\* C3: the log of a run starts on page 0 and lists the pages in order; it
\* moves to another page only right after an apply_redactions, and then to
\* the next page; a page's apply_redactions comes after the page's whole plan
\* (header, translation, price, reference in that order) and is the page's
\* last call; a run that returns applied every page exactly once.
C3_PlanThenApplyOnce ==
  /\ log # <<>> => log[1][2] = 0
  /\ \A j \in 2..Len(log) :
       log[j][2] # log[j - 1][2] =>
         IsApply(log[j - 1]) /\ log[j][2] = log[j - 1][2] + 1
  /\ \A i \in 1..Len(log) :
       IsApply(log[i]) =>
         /\ \A j \in (i + 1)..Len(log) : log[j][2] # log[i][2]
         /\ PageEvents(log, log[i][2]) = Append(PlanOf(config, log[i][2]), log[i])
  /\ pc = "returned" =>
       \A p \in 0..(Len(InputPages) - 1) :
         Cardinality({i \in 1..Len(log) : IsApply(log[i]) /\ log[i][2] = p}) = 1

C3_Witness ==
  /\ pc = "returned"
  /\ Len(InputPages) >= 2
  /\ \A k \in RecognisedKeys : KeyOn(config, k)
  /\ \E i \in 1..Len(doc) : Len(doc[i].redacted) >= 3

\* C6: with the four toggles false no region is ever planned or applied on
\* any page, and process returns translations = 0, prices_removed = 0 and
\* pages = the number of pages of the document.
C6_AllOffPlansNothing ==
  (\A k \in RecognisedKeys : KeyFalse(config, k)) =>
    /\ \A i \in 1..Len(doc) : doc[i].annots = <<>> /\ doc[i].redacted = <<>>
    /\ \A i \in 1..Len(doc) : doc[i].items = InputPages[i].items
    /\ pc = "returned" =>
         /\ stats.translations = 0
         /\ stats.prices_removed = 0
         /\ stats.pages = Len(InputPages)

C6_Witness ==
  /\ pc = "returned"
  /\ \A k \in RecognisedKeys : KeyFalse(config, k)
  /\ Len(InputPages) >= 2
  /\ TotalMatches(InputPages, TranslationTerms) > 0
  /\ TotalMatches(InputPages, price_keywords) > 0
  /\ TotalMatches(InputPages, ref_texts) > 0

\* C7: with remove_prices on, each hit of a price keyword at (x0, y0, x1, y1)
\* gives exactly one region (x0 - 10, y0, x1 + 200, y1 + 20) on its page and
\* counts one: when process returns prices_removed is the number of price
\* hits over all pages and keywords; with remove_prices false it stays 0.
C7_PriceRegions ==
  /\ KeyFalse(config, "remove_prices") => stats.prices_removed = 0
  /\ (pc = "returned" /\ KeyOn(config, "remove_prices")) =>
       /\ stats.prices_removed = TotalMatches(InputPages, price_keywords)
       /\ \A i \in 1..Len(doc) :
            \A j \in 1..Len(InputPages[i].items) :
              LET it == InputPages[i].items[j]
              IN  it.term \in Range(price_keywords) =>
                    Occurrences(doc[i].redacted,
                                <<it.rect[1] - 10, it.rect[2],
                                  it.rect[3] + 200, it.rect[4] + 20>>) = 1

C7_Witness ==
  /\ pc = "returned"
  /\ KeyOn(config, "remove_prices")
  /\ stats.prices_removed >= 3
  /\ \E i \in 1..Len(InputPages) : PageMatches(InputPages[i], price_keywords) = 2

\* C8: with remove_header true every page that was planned holds exactly one
\* header region (0, 0, page width, 100), whatever its text and whatever the
\* other toggles; when process returns that is every page.
C8_HeaderOnEveryPage ==
  KeyTrue(config, "remove_header") =>
    /\ \A i \in 1..Len(doc) :
         (i <= page_num \/ (i = page_num + 1 /\ pc # "header")) =>
           Occurrences(doc[i].annots \o doc[i].redacted,
                       <<0, 0, InputPages[i].width, 100>>) = 1
    /\ pc = "returned" => page_num = Len(InputPages)

C8_Witness ==
  /\ pc = "returned"
  /\ KeyTrue(config, "remove_header")
  /\ \A k \in RecognisedKeys \ {"remove_header"} : KeyFalse(config, k)
  /\ \E i \in 1..Len(InputPages) : InputPages[i].items = <<>>
  /\ \E i \in 1..Len(InputPages) : InputPages[i].width # 595

\* C9: two completed uploads of the same file whose configs agree on the
\* four toggles, an absent key read as true and every other key ignored,
\* return the same counters and produce the same redacted pages; so does
\* {"foo": true} against the four keys all true.
SameToggles(c1, c2) == \A k \in RecognisedKeys : KeyOn(c1, k) <=> KeyOn(c2, k)

C9_AbsentKeysAreTrue ==
  \A p, q \in DOMAIN processes :
    ( /\ processes[p].status = "completed"
      /\ processes[q].status = "completed"
      /\ uploads[p].file = uploads[q].file
      /\ SameToggles(processes[p].config, processes[q].config) )
    => /\ processes[p].stats = processes[q].stats
       /\ processed[p].pages = processed[q].pages

C9_Witness ==
  /\ pc = "idle"
  /\ 1 \in DOMAIN processes /\ 2 \in DOMAIN processes
  /\ processes[1].status = "completed" /\ processes[2].status = "completed"
  /\ processes[1].config = [k \in {"foo"} |-> TRUE]
  /\ processes[2].config = [k \in RecognisedKeys |-> TRUE]
  /\ uploads[1].file = uploads[2].file
  /\ Len(processed[1].pages[1].redacted) >= 4

====
